---- MODULE Spec2Model ----
(***************************************************************************)
(* Chatroom routes of ShopAPP (app/routes/chatrooms.py).                   *)
(*                                                                         *)
(* Four request handlers run as coroutines over a shared document store:   *)
(* create_chatroom, get_messages, send_message and get_user_chatrooms.     *)
(* A handler is suspended only at its awaited store calls, so each action  *)
(* below is one store call taking effect together with the straight-line   *)
(* code that follows it up to the next store call (or the return/raise).   *)
(* Requests of different slots interleave at these steps.                  *)
(***************************************************************************)
EXTENDS Naturals, Sequences, FiniteSets, TLC

\* ------------------------------------------------------------------ bounds
MaxRequests == 3      \* requests received in one behaviour
MaxRooms == 2         \* chatroom documents the store holds at most
MaxProcs == 2         \* requests in flight at the same time

Procs == 1..MaxProcs

\* ------------------------------------------------------------------ values
\* Identities the resolver can return; any of them may also be used as the
\* seller_id path parameter.
Ids == {"u1", "s1", "s2"}

\* get_current_user: the resolved identity {user_id, username}.
get_current_user(u) ==
    [user_id |-> u,
     username |-> CASE u = "u1" -> "Uma" [] u = "s1" -> "Sam" [] OTHER -> "Sol"]

None == [null |-> TRUE]

\* A chatroom_id path parameter is a string.  A well-formed one spells the
\* hex digits of an ObjectId, in lower or in upper case; anything else is
\* malformed.  hex = 0 stands for a string that is no ObjectId spelling.
IdString(n, c) == [hex |-> n, spelling |-> c]
Malformed == IdString(0, "other")
PathIds ==
    {IdString(n, "lower") : n \in 1..MaxRooms}
        \cup {IdString(1, "upper"), Malformed}

\* bson.ObjectId(s): parsing is case-insensitive, and raises InvalidId on a
\* string that is not 24 hex digits.
ObjectIdValid(s) == s.hex # 0
ObjectId(s) == s.hex

\* str(oid): always the lower-case spelling.
str(oid) == IdString(oid, "lower")

\* The request body of send_message (pydantic model Message): four required
\* string fields, of which the handler reads content only.
Contents == {"", "hello"}
Bodies ==
    {[user_id |-> "s2", username |-> "Eve", content |-> c, timestamp |-> 0] :
        c \in Contents}

CannedReply == "Thank you for your message. We will get back to you shortly."

\* The sellers collection, which these routes only read: s1 has a full
\* record, s2 a record without name and image, u1 has none.
SellerConfigs ==
    { << [seller_id |-> "s1", name |-> "Shop1", image |-> "s1.png"],
         [seller_id |-> "s2"] >> }

\* dict.get(key, default)
Get(doc, key, default) == IF key \in DOMAIN doc THEN doc[key] ELSE default

\* to_list(length): the first `length` documents of a cursor.
Take(s, n) == IF Len(s) <= n THEN s ELSE SubSeq(s, 1, n)

\* to_list(length=100) / to_list(100)
ListLimit == 100

VARIABLES chatrooms, messages, sellers, now, started, frame

vars == <<chatrooms, messages, sellers, now, started, frame>>

\* ------------------------------------------------------------------ frames
\* The frame of a request slot: the handler's parameters, its position, its
\* local variables and, once it has ended, its outcome.
IdleFrame ==
    [op |-> "idle", user |-> None, path |-> None, body |-> None,
     pc |-> "idle", result |-> "none", response |-> None,
     chatroom |-> None, chatroom_data |-> None,
     user_message |-> None, seller_reply |-> None,
     docs |-> << >>, todo |-> << >>, chatroom_responses |-> << >>]

Running(p) == frame[p].op # "idle" /\ frame[p].result = "none"
Free(p) == ~Running(p)

\* A handler ends: it returns (result OK) or raises.
End(p, f, res, resp) ==
    frame' = [frame EXCEPT ![p] = [f EXCEPT !.pc = "done", !.result = res,
                                            !.response = resp]]

Receive(p, o, u, path, body, label) ==
    [IdleFrame EXCEPT !.op = o, !.user = get_current_user(u), !.path = path,
                      !.body = body, !.pc = label]

\* ------------------------------------------------------------------ store
\* A filter applied to a collection: match[i] says whether document i matches.
\* find_one(filter): the first matching document in insertion order, or None.
FindOne(coll, match) ==
    IF \E i \in 1..Len(coll) : match[i]
    THEN coll[CHOOSE i \in 1..Len(coll) :
                 match[i] /\ \A j \in 1..(i - 1) : ~match[j]]
    ELSE None

\* find(filter).to_list(length): the matching documents in insertion order,
\* cut after `length` of them.
Find(coll, match, length) ==
    LET idx == {i \in 1..Len(coll) : match[i]}
        nth(k) == CHOOSE i \in idx : Cardinality({j \in idx : j < i}) = k - 1
    IN  Take([k \in 1..Cardinality(idx) |-> coll[nth(k)]], length)

Init ==
    /\ chatrooms = << >>
    /\ messages = << >>
    /\ sellers \in SellerConfigs
    /\ now = 0
    /\ started = 0
    /\ frame = [p \in Procs |-> IdleFrame]

\* raise HTTPException(status_code, detail)
HTTPException(code, detail) == [status_code |-> code, detail |-> detail]

\* A request is accepted while the behaviour's request budget lasts; the
\* slots are interchangeable, so it takes the first free one.
Accept(p) ==
    /\ Free(p)
    /\ \A q \in 1..(p - 1) : Running(q)
    /\ started < MaxRequests
    /\ started' = started + 1

\* ------------------------------------------------------- create_chatroom
\* The validation of line 31 left out.
SelfChat_Never(user, seller_id) == FALSE

\* line 31: the requester is the seller.
SelfChat(user, seller_id) == user["user_id"] = seller_id

\* The existence check matching on user_id alone.
ExistingFilter_UserOnly(c, user, seller_id) == c["user_id"] = user["user_id"]

\* line 35: the filter of the existence check.
ExistingFilter(c, user, seller_id) ==
    c["user_id"] = user["user_id"] /\ c["seller_id"] = seller_id

\* lines 26-32: the request arrives and the self-chat validation runs, before
\* any store call.
create_chatroom(p, u, seller_id) ==
    /\ Accept(p)
    /\ LET f == Receive(p, "create_chatroom", u, seller_id, None, "cc_find_one")
       IN  IF SelfChat(f.user, seller_id)
           THEN End(p, f, "InvalidOperation",
                    HTTPException(400, "User cannot create a chatroom with themselves."))
           ELSE frame' = [frame EXCEPT ![p] = f]
    /\ UNCHANGED <<chatrooms, messages, sellers, now>>

\* lines 35-44: find_one answers; Conflict, or chatroom_data is built.
cc_find_one(p) ==
    /\ Running(p)
    /\ frame[p].pc = "cc_find_one"
    /\ LET f == frame[p]
           existing_chatroom ==
               FindOne(chatrooms, [i \in 1..Len(chatrooms) |->
                   ExistingFilter(chatrooms[i], f.user, f.path)])
       IN  IF existing_chatroom # None
           THEN /\ End(p, [f EXCEPT !.chatroom = existing_chatroom], "Conflict",
                       HTTPException(400, "Chatroom already exists between this user and seller."))
                /\ now' = now
           ELSE /\ frame' = [frame EXCEPT ![p] =
                       [f EXCEPT !.pc = "cc_insert_one",
                                 !.chatroom_data =
                                     [user_id |-> f.user["user_id"],
                                      seller_id |-> f.path,
                                      created_at |-> now]]]
                /\ now' = now + 1
    /\ UNCHANGED <<chatrooms, messages, sellers, started>>

\* lines 47-56: insert_one stores the chatroom under a fresh _id; the handler
\* returns str(inserted_id).
cc_insert_one(p) ==
    /\ Running(p)
    /\ frame[p].pc = "cc_insert_one"
    /\ Len(chatrooms) < MaxRooms
    /\ LET f == frame[p]
           d == f.chatroom_data
           inserted_id == Len(chatrooms) + 1
           doc == [_id |-> inserted_id, user_id |-> d.user_id,
                   seller_id |-> d.seller_id, created_at |-> d.created_at]
       IN  /\ chatrooms' = Append(chatrooms, doc)
           /\ End(p, [f EXCEPT !.chatroom_data = doc], "OK",
                  [status |-> "OK",
                   data |-> [chatroom_id |-> str(inserted_id),
                             message |-> "Chatroom created successfully"]])
    /\ UNCHANGED <<messages, sellers, now, started>>

\* ------------------------------------------------------------ membership
\* The membership check matching on _id alone.
MemberFilter_IdOnly(c, chatroom_id, user) == c["_id"] = ObjectId(chatroom_id)

\* lines 66 and 89: the filter {_id: ObjectId(chatroom_id), $or: [{user_id},
\* {seller_id}]}.
MemberFilter(c, chatroom_id, user) ==
    /\ c["_id"] = ObjectId(chatroom_id)
    /\ (c["user_id"] = user["user_id"] \/ c["seller_id"] = user["user_id"])

NotMember == HTTPException(404, "Chatroom not found or you are not part of this chatroom")

\* ObjectId(chatroom_id) raises bson.errors.InvalidId, which no handler
\* catches: the request ends as a server error.
InvalidId == HTTPException(500, "Internal Server Error")

\* ---------------------------------------------------------- get_messages
\* The messages query without its filter.
MessageFilter_All(m, chatroom_id) == TRUE

\* line 72: the filter {chatroom_id: chatroom_id}, by string equality.
MessageFilter(m, chatroom_id) == m["chatroom_id"] = chatroom_id

\* lines 76-79: the fields returned per message.
MessageView(m) ==
    [user_id |-> m["user_id"], username |-> m["username"],
     content |-> m["content"], timestamp |-> m["timestamp"]]

MessageViews(ms) == [i \in 1..Len(ms) |-> MessageView(ms[i])]

\* lines 60-66: the request arrives and the query of the membership check is
\* built, which parses the path parameter.
get_messages(p, u, chatroom_id) ==
    /\ Accept(p)
    /\ LET f == Receive(p, "get_messages", u, chatroom_id, None, "gm_find_one")
       IN  IF ~ObjectIdValid(chatroom_id)
           THEN End(p, f, "InvalidId", InvalidId)
           ELSE frame' = [frame EXCEPT ![p] = f]
    /\ UNCHANGED <<chatrooms, messages, sellers, now>>

\* lines 66-69: the membership check answers.
gm_find_one(p) ==
    /\ Running(p)
    /\ frame[p].pc = "gm_find_one"
    /\ LET f == frame[p]
           chatroom == FindOne(chatrooms, [i \in 1..Len(chatrooms) |->
                          MemberFilter(chatrooms[i], f.path, f.user)])
       IN  IF chatroom = None
           THEN End(p, f, "NotFound", NotMember)
           ELSE frame' = [frame EXCEPT ![p] =
                    [f EXCEPT !.pc = "gm_find", !.chatroom = chatroom]]
    /\ UNCHANGED <<chatrooms, messages, sellers, now, started>>

\* lines 72-79: the messages of the chatroom are fetched and returned.
gm_find(p) ==
    /\ Running(p)
    /\ frame[p].pc = "gm_find"
    /\ LET f == frame[p]
           found == Find(messages, [i \in 1..Len(messages) |->
                              MessageFilter(messages[i], f.path)], ListLimit)
           g == [f EXCEPT !.docs = found]
       IN  IF found = << >>
           THEN End(p, g, "NotFound",
                    HTTPException(404, "No messages found in this chatroom"))
           ELSE End(p, g, "OK", MessageViews(found))
    /\ UNCHANGED <<chatrooms, messages, sellers, now, started>>

\* ---------------------------------------------------------- send_message
\* lines 95-101: the requester's message.
UserMessage(chatroom_id, user, body, ts) ==
    [chatroom_id |-> chatroom_id, user_id |-> user["user_id"],
     username |-> user["username"], content |-> body["content"],
     timestamp |-> ts]

\* The reply attributed to the chatroom's user_id.
SellerReply_AsBuyer(chatroom_id, chatroom, ts) ==
    [chatroom_id |-> chatroom_id, user_id |-> chatroom["user_id"],
     username |-> "Seller", content |-> CannedReply, timestamp |-> ts]

\* lines 107-113: the hard-coded reply in the seller's name.
SellerReply(chatroom_id, chatroom, ts) ==
    [chatroom_id |-> chatroom_id, user_id |-> chatroom["seller_id"],
     username |-> "Seller", content |-> CannedReply, timestamp |-> ts]

\* insert_one(doc) on messages: the stored document is doc with a fresh _id
\* (which the driver also sets on the caller's dict).
Stored(doc, id) ==
    [_id |-> id, chatroom_id |-> doc.chatroom_id, user_id |-> doc.user_id,
     username |-> doc.username, content |-> doc.content,
     timestamp |-> doc.timestamp]

\* lines 83-89: the request arrives and the query of the membership check is
\* built, which parses the path parameter.
send_message(p, u, chatroom_id, message) ==
    /\ Accept(p)
    /\ LET f == Receive(p, "send_message", u, chatroom_id, message, "sm_find_one")
       IN  IF ~ObjectIdValid(chatroom_id)
           THEN End(p, f, "InvalidId", InvalidId)
           ELSE frame' = [frame EXCEPT ![p] = f]
    /\ UNCHANGED <<chatrooms, messages, sellers, now>>

\* lines 89-101: the membership check answers; user_message is built.
sm_find_one(p) ==
    /\ Running(p)
    /\ frame[p].pc = "sm_find_one"
    /\ LET f == frame[p]
           chatroom == FindOne(chatrooms, [i \in 1..Len(chatrooms) |->
                          MemberFilter(chatrooms[i], f.path, f.user)])
       IN  IF chatroom = None
           THEN /\ End(p, f, "NotFound", NotMember)
                /\ now' = now
           ELSE /\ frame' = [frame EXCEPT ![p] =
                       [f EXCEPT !.pc = "sm_insert_user", !.chatroom = chatroom,
                                 !.user_message =
                                     UserMessage(f.path, f.user, f.body, now)]]
                /\ now' = now + 1
    /\ UNCHANGED <<chatrooms, messages, sellers, started>>

\* The first insert not taking effect although the handler goes on.
sm_insert_user_Lost(p) ==
    /\ Running(p)
    /\ frame[p].pc = "sm_insert_user"
    /\ LET f == frame[p]
       IN  frame' = [frame EXCEPT ![p] =
               [f EXCEPT !.pc = "sm_insert_reply",
                         !.user_message = Stored(f.user_message, Len(messages) + 1),
                         !.seller_reply = SellerReply(f.path, f.chatroom, now)]]
    /\ now' = now + 1
    /\ UNCHANGED <<chatrooms, messages, sellers, started>>

\* lines 104-113: the first insert_one takes effect; seller_reply is built.
sm_insert_user(p) ==
    /\ Running(p)
    /\ frame[p].pc = "sm_insert_user"
    /\ LET f == frame[p]
           doc == Stored(f.user_message, Len(messages) + 1)
       IN  /\ messages' = Append(messages, doc)
           /\ frame' = [frame EXCEPT ![p] =
                  [f EXCEPT !.pc = "sm_insert_reply", !.user_message = doc,
                            !.seller_reply = SellerReply(f.path, f.chatroom, now)]]
    /\ now' = now + 1
    /\ UNCHANGED <<chatrooms, sellers, started>>

\* lines 116-118: the second insert_one takes effect; the handler returns.
sm_insert_reply(p) ==
    /\ Running(p)
    /\ frame[p].pc = "sm_insert_reply"
    /\ LET f == frame[p]
           doc == Stored(f.seller_reply, Len(messages) + 1)
       IN  /\ messages' = Append(messages, doc)
           /\ End(p, [f EXCEPT !.seller_reply = doc], "OK",
                  [status |-> "OK", data |-> [message |-> "Message sent successfully"]])
    /\ UNCHANGED <<chatrooms, sellers, now, started>>

\* ---------------------------------------------------- get_user_chatrooms
\* The listing matching the requester on either side of the chatroom.
OwnFilter_EitherSide(c, user_id) ==
    c["user_id"] = user_id \/ c["seller_id"] = user_id

\* line 132: the filter {user_id: user_id}.
OwnFilter(c, user_id) == c["user_id"] = user_id

\* lines 146-150: the summary of a chatroom whose seller was found.
ChatroomResponse(chatroom, seller) ==
    [chatroom_id |-> str(chatroom["_id"]),
     seller_name |-> Get(seller, "name", "Unknown"),
     seller_avatar |-> Get(seller, "image", "")]

\* lines 144-150: one iteration of the loop body, given the seller lookup's
\* answer.
Summaries(responses, chatroom, seller) ==
    IF seller # None
    THEN Append(responses, ChatroomResponse(chatroom, seller))
    ELSE responses

\* lines 126-132: the request arrives.
get_user_chatrooms(p, u) ==
    /\ Accept(p)
    /\ frame' = [frame EXCEPT ![p] =
           Receive(p, "get_user_chatrooms", u, None, None, "gc_find")]
    /\ UNCHANGED <<chatrooms, messages, sellers, now>>

\* lines 132-137: the requester's chatrooms are fetched.
gc_find(p) ==
    /\ Running(p)
    /\ frame[p].pc = "gc_find"
    /\ LET f == frame[p]
           found == Find(chatrooms, [i \in 1..Len(chatrooms) |->
                              OwnFilter(chatrooms[i], f.user["user_id"])], ListLimit)
       IN  IF found = << >>
           THEN End(p, f, "NotFound",
                    HTTPException(404, "No chatrooms found for this user"))
           ELSE frame' = [frame EXCEPT ![p] =
                    [f EXCEPT !.pc = "gc_find_seller", !.docs = found,
                              !.todo = found]]
    /\ UNCHANGED <<chatrooms, messages, sellers, now, started>>

\* lines 140-157: the seller lookup of the next chatroom of the loop answers;
\* after the last one the handler returns.
gc_find_seller(p) ==
    /\ Running(p)
    /\ frame[p].pc = "gc_find_seller"
    /\ LET f == frame[p]
           chatroom == Head(f.todo)
           seller == FindOne(sellers, [i \in 1..Len(sellers) |->
                         sellers[i]["seller_id"] = chatroom["seller_id"]])
           responses == Summaries(f.chatroom_responses, chatroom, seller)
           g == [f EXCEPT !.todo = Tail(f.todo), !.chatroom_responses = responses]
       IN  IF Tail(f.todo) = << >>
           THEN End(p, g, "OK",
                    [status |-> "OK", data |-> [chatrooms |-> responses]])
           ELSE frame' = [frame EXCEPT ![p] = g]
    /\ UNCHANGED <<chatrooms, messages, sellers, now, started>>

\* ---------------------------------------------------------- store faults
StoreCalls ==
    {"cc_find_one", "cc_insert_one", "gm_find_one", "gm_find", "sm_find_one",
     "sm_insert_user", "sm_insert_reply", "gc_find", "gc_find_seller"}

\* An awaited store call raises instead of answering.  No handler catches
\* it: the call has no effect and the request ends as a server error, its
\* position left at the failed call.
StoreFault(p) ==
    /\ Running(p)
    /\ frame[p].pc \in StoreCalls
    /\ frame' = [frame EXCEPT ![p].result = "StoreFault",
                              ![p].response = HTTPException(500, "Internal Server Error")]
    /\ UNCHANGED <<chatrooms, messages, sellers, now, started>>

\* ------------------------------------------------------------------ next
Next ==
    \/ \E p \in Procs, u \in Ids, s \in Ids : create_chatroom(p, u, s)
    \/ \E p \in Procs : cc_find_one(p)
    \/ \E p \in Procs : cc_insert_one(p)
    \/ \E p \in Procs, u \in Ids, c \in PathIds : get_messages(p, u, c)
    \/ \E p \in Procs : gm_find_one(p)
    \/ \E p \in Procs : gm_find(p)
    \/ \E p \in Procs, u \in Ids, c \in PathIds, b \in Bodies : send_message(p, u, c, b)
    \/ \E p \in Procs : sm_find_one(p)
    \/ \E p \in Procs : sm_insert_user(p)
    \/ \E p \in Procs : sm_insert_reply(p)
    \/ \E p \in Procs, u \in Ids : get_user_chatrooms(p, u)
    \/ \E p \in Procs : gc_find(p)
    \/ \E p \in Procs : gc_find_seller(p)
    \/ \E p \in Procs : StoreFault(p)

Spec == Init /\ [][Next]_vars

\* ================================================================ claims
\* The request of slot p takes a handler step (a store call answers); a
\* store fault is no handler step.
Step(p) ==
    /\ Running(p)
    /\ frame'[p] # frame[p]
    /\ frame'[p].result # "StoreFault"

\* The request of slot p has ended by a return or by an exception of the
\* handler itself.
Ended(p) == frame[p].result \notin {"none", "StoreFault"}

HasPair(rooms, u, s) ==
    \E i \in 1..Len(rooms) : rooms[i].user_id = u /\ rooms[i].seller_id = s

\* C1: in every reachable state at most one stored chatroom has a given
\* ordered pair (user_id, seller_id), also when the find_one and insert_one
\* steps of several create_chatroom requests interleave.
C1_AtMostOneChatroomPerPair ==
    \A i, j \in 1..Len(chatrooms) :
        (chatrooms[i].user_id = chatrooms[j].user_id
            /\ chatrooms[i].seller_id = chatrooms[j].seller_id) => i = j

\* C2: a create_chatroom(u, s), u # s, whose existence check finds no stored
\* chatroom (u, s) goes on to the insert, and its insert adds exactly one
\* chatroom (u, s) and returns OK; a create_chatroom(u, s) whose existence
\* check runs once a chatroom (u, s) is stored fails with Conflict and leaves
\* chatrooms and messages unchanged.
C2_FirstSucceedsSecondConflicts ==
    [][\A p \in Procs :
        (Step(p) /\ frame[p].op = "create_chatroom") =>
            LET u == frame[p].user.user_id
                s == frame[p].path
            IN  /\ messages' = messages
                /\ (frame[p].pc = "cc_find_one" /\ HasPair(chatrooms, u, s)) =>
                      /\ frame'[p].result = "Conflict"
                      /\ chatrooms' = chatrooms
                /\ (frame[p].pc = "cc_find_one" /\ ~HasPair(chatrooms, u, s)) =>
                      /\ frame'[p].result = "none"
                      /\ frame'[p].pc = "cc_insert_one"
                      /\ chatrooms' = chatrooms
                /\ frame[p].pc = "cc_insert_one" =>
                      /\ frame'[p].result = "OK"
                      /\ Len(chatrooms') = Len(chatrooms) + 1
                      /\ SubSeq(chatrooms', 1, Len(chatrooms)) = chatrooms
                      /\ chatrooms'[Len(chatrooms')].user_id = u
                      /\ chatrooms'[Len(chatrooms')].seller_id = s
                      /\ frame'[p].response.data.chatroom_id
                            = str(chatrooms'[Len(chatrooms')]._id)
      ]_vars

\* A second create_chatroom(u, s) has failed with Conflict after the first
\* one stored the chatroom.
C2_Witness ==
    \E p \in Procs :
        /\ frame[p].op = "create_chatroom"
        /\ frame[p].result = "Conflict"
        /\ Len(chatrooms) = 1
        /\ chatrooms[1].user_id = frame[p].user.user_id
        /\ chatrooms[1].seller_id = frame[p].path

\* C3: create_chatroom with requester_id = seller_id fails with
\* InvalidOperation in the step that receives it (before any store call)
\* and stores nothing; every stored chatroom has user_id # seller_id.
C3_NoSelfChatroom ==
    /\ [](\A i \in 1..Len(chatrooms) : chatrooms[i].user_id # chatrooms[i].seller_id)
    /\ [](\A p \in Procs :
            (frame[p].op = "create_chatroom" /\ frame[p].user.user_id = frame[p].path)
                => frame[p].result = "InvalidOperation")
    /\ [][\A p \in Procs :
            (/\ frame'[p] # frame[p]
             /\ frame'[p].op = "create_chatroom"
             /\ frame'[p].user.user_id = frame'[p].path)
                => chatrooms' = chatrooms /\ messages' = messages]_vars

\* A self-chat request has been refused while a chatroom is stored.
C3_Witness ==
    /\ Len(chatrooms) >= 1
    /\ \E p \in Procs :
          /\ frame[p].op = "create_chatroom"
          /\ frame[p].user.user_id = frame[p].path
          /\ frame[p].result = "InvalidOperation"

IsMemberOfStored(chatroom_id, u) ==
    \E i \in 1..Len(chatrooms) :
        /\ str(chatrooms[i]._id).hex = chatroom_id.hex
        /\ u \in {chatrooms[i].user_id, chatrooms[i].seller_id}

\* C4: for every requester and every chatroom_id value, when no stored
\* chatroom has that id with the requester as user_id or seller_id,
\* list_messages and send_message fail with NotFound, with the same report
\* whether the chatroom is missing or the requester is no member, and
\* send_message stores no message.
C4_NonMemberNotFound ==
    \A p \in Procs :
        (/\ frame[p].op \in {"get_messages", "send_message"}
         /\ Ended(p)
         /\ ~IsMemberOfStored(frame[p].path, frame[p].user.user_id))
            => /\ frame[p].result = "NotFound"
               /\ frame[p].response = NotMember
               /\ frame[p].user_message = None

Extends(old, new) ==
    /\ Len(new) >= Len(old)
    /\ SubSeq(new, 1, Len(old)) = old

AppendsOne(old, new) == Len(new) = Len(old) + 1 /\ Extends(old, new)

\* C5: a send_message changes nothing but the messages collection, to which
\* its first insert appends exactly one message (the given chatroom_id, the
\* requester's user_id and username, the given content, the empty string
\* included) and its second insert exactly one more (same chatroom_id, the
\* chatroom's seller_id, username "Seller", the canned content); when it has
\* returned both are stored, the requester's message first.
C5_SendStoresMessageThenReply ==
    /\ [][\A p \in Procs :
            (Step(p) /\ frame[p].op = "send_message") =>
                LET f == frame[p]
                    m == messages'[Len(messages')]
                IN  /\ chatrooms' = chatrooms
                    /\ f.pc = "sm_find_one" => messages' = messages
                    /\ f.pc = "sm_insert_user" =>
                          /\ AppendsOne(messages, messages')
                          /\ m.chatroom_id = f.path
                          /\ m.user_id = f.user.user_id
                          /\ m.username = f.user.username
                          /\ m.content = f.body.content
                          /\ frame'[p].result = "none"
                          /\ frame'[p].pc = "sm_insert_reply"
                    /\ f.pc = "sm_insert_reply" =>
                          /\ AppendsOne(messages, messages')
                          /\ m.chatroom_id = f.path
                          /\ \E i \in 1..Len(chatrooms) :
                                /\ chatrooms[i]._id = ObjectId(f.path)
                                /\ m.user_id = chatrooms[i].seller_id
                          /\ m.username = "Seller"
                          /\ m.content = "Thank you for your message. We will get back to you shortly."
                          /\ frame'[p].result = "OK"
         ]_vars
    /\ [](\A p \in Procs :
            (frame[p].op = "send_message" /\ frame[p].result = "OK") =>
                \E i, j \in 1..Len(messages) :
                    /\ i < j
                    /\ messages[i] = frame[p].user_message
                    /\ messages[j] = frame[p].seller_reply)

\* A send_message with empty content has returned, and the collection holds
\* its two messages and no other.
C5_Witness ==
    \E p \in Procs :
        /\ frame[p].op = "send_message"
        /\ frame[p].result = "OK"
        /\ frame[p].body.content = ""
        /\ Len(messages) = 2
        /\ messages[2].username = "Seller"

HasSeller(c) == \E i \in 1..Len(sellers) : sellers[i].seller_id = c.seller_id

C8_MessagesBelongToChatrooms ==
    \A k \in 1..Len(messages) :
        /\ ObjectIdValid(messages[k].chatroom_id)
        /\ \E i \in 1..Len(chatrooms) :
              /\ chatrooms[i]._id = ObjectId(messages[k].chatroom_id)
              /\ messages[k].user_id \in {chatrooms[i].user_id, chatrooms[i].seller_id}

\* The seller of a chatroom has sent a message into it: both stored messages
\* carry the seller's id.
C8_Witness ==
    /\ Len(messages) = 2
    /\ Len(chatrooms) = 1
    /\ messages[1].user_id = chatrooms[1].seller_id
    /\ messages[2].user_id = chatrooms[1].seller_id

\* C9: in the insertion order of messages, no other message of the same
\* chatroom lies between the message and the auto-reply of a send_message
\* that has returned, also when send_message requests interleave.
C9_ReplyFollowsImmediately ==
    \A p \in Procs :
        (frame[p].op = "send_message" /\ frame[p].result = "OK") =>
            \A i, j, k \in 1..Len(messages) :
                (/\ messages[i] = frame[p].user_message
                 /\ messages[j] = frame[p].seller_reply
                 /\ i < k /\ k < j)
                    => ObjectId(messages[k].chatroom_id) # ObjectId(frame[p].path)

SameMessage(m, doc) ==
    /\ m.chatroom_id = doc.chatroom_id
    /\ m.user_id = doc.user_id
    /\ m.username = doc.username
    /\ m.content = doc.content
    /\ m.timestamp = doc.timestamp

\* C10: no step removes or changes a stored message; a send_message whose
\* second insert fails has ended in failure with its message stored and no
\* auto-reply for it; one whose first insert fails has stored no message.
C10_NoRollback ==
    /\ [][Extends(messages, messages')]_vars
    /\ [](\A p \in Procs :
            (frame[p].op = "send_message" /\ frame[p].result = "StoreFault") =>
                LET f == frame[p]
                IN  /\ f.response.status_code = 500
                    /\ f.pc = "sm_insert_reply" =>
                          /\ \E i \in 1..Len(messages) : messages[i] = f.user_message
                          /\ \A i \in 1..Len(messages) : ~SameMessage(messages[i], f.seller_reply)
                    /\ f.pc = "sm_insert_user" =>
                          \A i \in 1..Len(messages) : ~SameMessage(messages[i], f.user_message)
                    /\ f.pc = "sm_find_one" => f.user_message = None)

\* The second insert of a send_message has failed: the collection holds the
\* requester's message alone.
C10_Witness ==
    \E p \in Procs :
        /\ frame[p].op = "send_message"
        /\ frame[p].result = "StoreFault"
        /\ frame[p].pc = "sm_insert_reply"
        /\ Len(messages) = 1
        /\ messages[1] = frame[p].user_message

====
